---- MODULE Spec2Model ----
(***************************************************************************)
(* The browser agent's orchestration graph (plan, router, the four action  *)
(* nodes, heal, success, finalize) and its self-healing node, as a state   *)
(* machine.  pc is the graph node that runs next; every action below is    *)
(* one node together with the conditional edge that leaves it.             *)
(***************************************************************************)
EXTENDS Integers, Sequences, FiniteSets, TLC

\* ------------------------------------------------------------------ bounds
\* Longest plan the planner returns in the model.
MaxSteps == 2
\* Largest healingConfig.maxRetries explored (the schema allows up to MaxRetries).
MaxRetriesChecked == 5
\* Largest healingConfig.maxRetries explored with healing switched off.
MaxRetriesDisabled == 3
\* Largest runsPerScenario and largest number of scenarios of an evaluation.
MaxRuns == 3
MaxScenarios == 2
\* The k passed to a metric function ranges from -MaxNegativeK to MaxRuns + 1.
MaxNegativeK == 2
\* Largest sample count n passed to estimatePassAtK; its k ranges up to n + 1.
MaxSamples == 5
\* The clock readings the model tells apart, in ticks after the start of the run; the
\* clock stays at the last one.
MaxTime == 2
\* The healingConfig.maxRetries under which the two backoff policies are compared.
BackoffRetries == 4
\* Largest healingConfig.maxRetries of the runs followed to their end.
MaxRetriesLive == 4

\* ------------------------------------------------------- program constants
\* HealingConfigSchema: maxRetries: z.number().min(1).max(10)
MinRetries == 1
MaxRetries == 10
\* `confidence > 0.6` at every accept site, in tenths.
ConfidenceThreshold == 6
\* HealingConfigSchema: baseDelayMs defaults to 1000
DefaultBaseDelayMs == 1000

\* ------------------------------------------------------------- data model
\* ActionTypeSchema
ActionTypes == {"navigate", "click", "fill", "extract", "wait", "screenshot"}

\* Action.target is optional: NoTarget stands for an absent (or empty) target.
NoTarget == "<no target>"
\* A natural-language description, as the planner writes targets; this one also
\* names a search control, which clickNode and fillNode treat specially.
PlannedTargets == {"search button"}
\* A selector returned by the vision locator.
Selectors == {"#healed", "#doubtful"}

\* A type string outside ActionTypeSchema: planTask casts the parsed JSON to Action[]
\* without validating it.
UnknownTypes == {"hover"}

\* Action.value of an action planned without one, and the text the planner gives a fill.
NoText == "<no value>"
FillTexts == {"sentinel"}
\* Action: { type, target?, value? }
Action(type, target) ==
    [type |-> type, target |-> target,
     value |-> IF type = "fill" THEN CHOOSE text \in FillTexts : TRUE ELSE NoText]
\* currentAction: Action | null
NoAction == [type |-> "<null>", target |-> NoTarget, value |-> NoText]

\* The elements a plan can have: planTask returns whatever array the reply parses to,
\* so besides the actions of the schema an element can have an unknown type or be null.
PlannedActions ==
    {Action(ty, tg) : ty \in ActionTypes, tg \in PlannedTargets \cup {NoTarget}}
        \cup {Action(ty, NoTarget) : ty \in UnknownTypes}
        \cup {NoAction}

\* DetectedElement | null, confidence in tenths
NoElement == [selector |-> NoTarget, confidence |-> 0]
Detections ==
    {NoElement, [selector |-> "#doubtful", confidence |-> ConfidenceThreshold],
     [selector |-> "#healed", confidence |-> 9]}

\* lastError: string | null
NoError == "<null>"

\* resolved: no target resolved; asked: whether the locator was called, answer: what it
\* answered, selector: the selector the node went on to act on.
NoResolution == [asked |-> FALSE, answer |-> NoElement, selector |-> NoTarget]
\* resolved in the runs in which the resolution of targets is not followed.
NotFollowed == [asked |-> FALSE, answer |-> NoElement, selector |-> "<not followed>"]

\* finalResult: TaskResult | null
NoResult ==
    [success |-> FALSE, data |-> <<>>, steps |-> <<>>, healingAttempts |-> <<>>, duration |-> 0,
     screenshots |-> <<>>, final |-> FALSE]

\* What an extract step can read off the page (a parsed JSON object, possibly empty).
ExtractOutputs ==
    {<<>>, [k \in {"titles"} |-> "v1"], [k \in {"titles"} |-> "v2"], [k \in {"links"} |-> "v1"]}

\* The plans the planner can return: any list of at most MaxSteps actions.
RECURSIVE SeqsUpTo(_, _)
SeqsUpTo(S, n) ==
    IF n = 0 THEN {<<>>}
    ELSE LET shorter == SeqsUpTo(S, n - 1)
         IN shorter \cup {Append(p, a) : p \in {q \in shorter : Len(q) = n - 1}, a \in S}
Plans == SeqsUpTo(PlannedActions, MaxSteps)

\* The retry ceilings the configuration schema accepts, as far as explored.
RetryCeilings == {r \in MinRetries..MaxRetries : r <= MaxRetriesChecked}

VARIABLES
    healingConfig,     \* context.healingConfig
    pc,                \* the graph node that runs next
    lastNode,          \* the graph node that ran last
    actions,           \* BrowserAgentState.actions
    currentStep,
    totalSteps,
    currentAction,
    results,           \* StepResult[], each tagged with the cursor it was recorded at
    lastError,
    healingAttempts,   \* the per-step healing counter
    healingHistory,    \* HealingAttempt[], each tagged with the cursor it was recorded at
    extractedData,
    needsHealing,
    isComplete,
    healingExhausted,
    finalResult,
    healCalls,         \* the browser / locator calls heal made, while heal is the node that ran last
    now,               \* Date.now(), as read by the action nodes, in ticks
    resolved           \* what click or fill, while it is the node that ran last, resolved its target to

\* The evaluation runner (runEvaluation) and the metric functions it calls.
VARIABLES
    evalOptions,       \* EvalOptions { kValues, runsPerScenario } and the number of scenarios
    evalPc,            \* the runner's position
    scenarioIndex,     \* the scenario of the outer loop, from 1
    runIndex,          \* `run`, the counter of the inner loop
    runResults,        \* { success, error? } of every run of the scenario so far
    scenarioResults,   \* EvalResult[], runEvaluation's `results`
    report,            \* EvalReport | not yet
    liveSessions,      \* browsers launched and not yet closed
    call,              \* a metric function call: its name and arguments
    returned           \* what the call returned

graphVars ==
    <<healingConfig, pc, lastNode, actions, currentStep, totalSteps, currentAction, results,
      lastError, healingAttempts, healingHistory, extractedData, needsHealing, isComplete,
      healingExhausted, finalResult, healCalls, now,
      resolved>>

evalVars ==
    <<evalOptions, evalPc, scenarioIndex, runIndex, runResults, scenarioResults, report,
      liveSessions, call, returned>>

vars == <<graphVars, evalVars>>

\* The value resolved takes when a node resolved its target as r.
Follow(r) == IF resolved = NotFollowed THEN NotFollowed ELSE r

\* report: EvalReport, none before runEvaluation returns
NoReport == [totalScenarios |-> 0, passAt1 |-> 0, passAt3 |-> 0, passAt5 |-> 0, final |-> FALSE]
\* No metric function is being called.
NoCall == [fn |-> "<none>", results |-> <<>>, k |-> 0]
NoReturn == [done |-> FALSE, value |-> FALSE]

\* runEvaluation is not running.
NoRunner ==
    /\ evalOptions = [runsPerScenario |-> 0, kValues |-> <<>>, scenarios |-> 0]
    /\ evalPc = "idle"
    /\ scenarioIndex = 0
    /\ runIndex = 0
    /\ runResults = <<>>
    /\ scenarioResults = <<>>
    /\ report = NoReport
    /\ liveSessions = 0

\* No evaluation is running: a single task run through the graph.
NoEvaluation ==
    /\ NoRunner
    /\ call = NoCall
    /\ returned = NoReturn

\* The fields no action node or heal touches.
planVars == <<healingConfig, actions, totalSteps>>

Last(s) == s[Len(s)]

\* state.ts: the defaults of every annotation; createAgent: healingConfig from the
\* parsed SentinelConfig, in which both command-line entry points write enabled: true;
\* graph.invoke({task}) starts at START -> plan.
Init ==
    /\ healingConfig \in [enabled : {TRUE}, maxRetries : RetryCeilings,
                           backoff : {"exponential"}, baseDelayMs : {DefaultBaseDelayMs}]
    /\ pc = "plan"
    /\ lastNode = "START"
    /\ actions = <<>>
    /\ currentStep = 0
    /\ totalSteps = 0
    /\ currentAction = NoAction
    /\ results = <<>>
    /\ lastError = NoError
    /\ healingAttempts = 0
    /\ healingHistory = <<>>
    /\ extractedData = <<>>
    /\ needsHealing = FALSE
    /\ isComplete = FALSE
    /\ healingExhausted = FALSE
    /\ finalResult = NoResult
    /\ healCalls = <<>>
    /\ now = MaxTime
    /\ resolved = NotFollowed
    /\ NoEvaluation

\* The same start for an agent created with a configuration that switches healing off,
\* which HealingConfigSchema accepts and createAgent passes on unchanged.
DisabledInit ==
    /\ healingConfig \in [enabled : {FALSE},
                           maxRetries : {r \in RetryCeilings : r <= MaxRetriesDisabled},
                           backoff : {"exponential"}, baseDelayMs : {DefaultBaseDelayMs}]
    /\ pc = "plan"
    /\ lastNode = "START"
    /\ actions = <<>>
    /\ currentStep = 0
    /\ totalSteps = 0
    /\ currentAction = NoAction
    /\ results = <<>>
    /\ lastError = NoError
    /\ healingAttempts = 0
    /\ healingHistory = <<>>
    /\ extractedData = <<>>
    /\ needsHealing = FALSE
    /\ isComplete = FALSE
    /\ healingExhausted = FALSE
    /\ finalResult = NoResult
    /\ healCalls = <<>>
    /\ now = MaxTime
    /\ resolved = NotFollowed
    /\ NoEvaluation

\* The reducer with the keys already present kept as they are.
MergeDataKeepingFirst(prev, next) ==
    [k \in DOMAIN prev \cup DOMAIN next |-> IF k \in DOMAIN prev THEN prev[k] ELSE next[k]]

\* extractedData reducer: (prev, next) => ({ ...prev, ...next })
MergeData(prev, next) ==
    [k \in DOMAIN prev \cup DOMAIN next |-> IF k \in DOMAIN next THEN next[k] ELSE prev[k]]

\* ------------------------------------------------------------------- plan
\* The plan node run again after planTask threw.
PlanRetried ==
    /\ pc = "plan"
    /\ lastNode' = "plan"
    /\ resolved' = Follow(NoResolution)
    /\ healCalls' = <<>>
    /\ \E throws \in BOOLEAN, planned \in Plans :
        IF throws
        THEN /\ pc' = "plan"
             /\ UNCHANGED <<actions, totalSteps, currentStep>>
        ELSE /\ actions' = actions \o planned
             /\ totalSteps' = Len(planned)
             /\ currentStep' = 0
             /\ pc' = "router"
    /\ UNCHANGED <<evalVars, now, healingConfig, currentAction, results, lastError, healingAttempts,
                   healingHistory, extractedData, needsHealing, isComplete,
                   healingExhausted, finalResult>>

\* plan node and the plan -> router edge.  planTask either returns the parsed
\* action list or throws, which ends the run with no result.
Plan ==
    /\ pc = "plan"
    /\ lastNode' = "plan"
    /\ resolved' = Follow(NoResolution)
    /\ healCalls' = <<>>
    /\ \E throws \in BOOLEAN, planned \in Plans :
        IF throws
        THEN /\ pc' = "aborted"
             /\ UNCHANGED <<actions, totalSteps, currentStep>>
        ELSE /\ actions' = actions \o planned
             /\ totalSteps' = Len(planned)
             /\ currentStep' = 0
             /\ pc' = "router"
    /\ UNCHANGED <<evalVars, now, healingConfig, currentAction, results, lastError, healingAttempts,
                   healingHistory, extractedData, needsHealing, isComplete,
                   healingExhausted, finalResult>>

\* ----------------------------------------------------------------- router
\* The router edge without its completion test.
RouterEdgeIgnoringComplete(complete, action) ==
    IF action = NoAction THEN "finalize"
    ELSE IF action.type \in {"navigate", "click", "fill", "extract"} THEN action.type
    ELSE "success"

\* The router edge ending the run at an action type it has no node for.
RouterEdgeStopsAtUnknown(complete, action) ==
    IF complete THEN "finalize"
    ELSE IF action = NoAction THEN "finalize"
    ELSE IF action.type \in {"navigate", "click", "fill", "extract"} THEN action.type
    ELSE "finalize"

\* The conditional edge out of router, on the state the router node produced.
RouterEdge(complete, action) ==
    IF complete THEN "finalize"
    ELSE IF action = NoAction THEN "finalize"
    ELSE IF action.type \in {"navigate", "click", "fill", "extract"} THEN action.type
    ELSE "success"

\* router keeping the current action across steps when it has the type of the planned one.
RouterKeepingDerivedAction ==
    /\ pc = "router"
    /\ lastNode' = "router"
    /\ resolved' = Follow(NoResolution)
    /\ healCalls' = <<>>
    /\ IF currentStep >= totalSteps
       THEN /\ isComplete' = TRUE
            /\ UNCHANGED <<currentAction, needsHealing>>
       ELSE /\ currentAction' = IF currentAction # NoAction
                                    /\ currentAction.type = actions[currentStep + 1].type
                                 THEN currentAction
                                 ELSE actions[currentStep + 1]
            /\ needsHealing' = FALSE
            /\ UNCHANGED isComplete
    /\ pc' = RouterEdge(isComplete', currentAction')
    /\ UNCHANGED <<evalVars, now, planVars, currentStep, results, lastError, healingAttempts, healingHistory,
                   extractedData, healingExhausted, finalResult>>

\* router node and its conditional edge.
Router ==
    /\ pc = "router"
    /\ lastNode' = "router"
    /\ resolved' = Follow(NoResolution)
    /\ healCalls' = <<>>
    /\ IF currentStep >= totalSteps
       THEN /\ isComplete' = TRUE
            /\ UNCHANGED <<currentAction, needsHealing>>
       ELSE /\ currentAction' = actions[currentStep + 1]
            /\ needsHealing' = FALSE
            /\ UNCHANGED isComplete
    /\ pc' = RouterEdge(isComplete', currentAction')
    /\ UNCHANGED <<evalVars, now, planVars, currentStep, results, lastError, healingAttempts, healingHistory,
                   extractedData, healingExhausted, finalResult>>

\* ------------------------------------------------------------------- heal
\* HealingAttempt { attemptNumber, originalError, strategy, elementFound, newSelector? },
\* with the cursor as `step`.
HealingAttempt(attemptNumber, strategy, elementFound, newSelector) ==
    [attemptNumber |-> attemptNumber,
     originalError |-> IF lastError = NoError THEN "Unknown error" ELSE lastError,
     strategy |-> strategy, elementFound |-> elementFound, newSelector |-> newSelector,
     step |-> currentStep]

\* isCssSelector, on the targets of the model: the selectors the locator answers start
\* with '#', the planned targets are natural language.
IsCssSelector(target) == target \in Selectors

\* The first of the common selector patterns of clickNode and of fillNode.
ClickPattern(target) == "button:has-text(\"" \o target \o "\")"
FillPattern(target) == "input[placeholder*=\"" \o target \o "\" i]"

\* `detected && detected.confidence > 0.6` with the threshold itself accepted.
AcceptedFromThreshold(detected) ==
    detected # NoElement /\ detected.confidence >= ConfidenceThreshold

\* `detected && detected.confidence > 0.6`
Accepted(detected) == detected # NoElement /\ detected.confidence > ConfidenceThreshold

\* The selector clickNode and fillNode act on: the target itself when it looks like a
\* CSS selector, else the locator's candidate when it is accepted, else the selector
\* pattern that matches an element of the page, else none ('Could not find element').
ResolveSelector(target, detected, pattern, found) ==
    IF IsCssSelector(target)
    THEN [asked |-> FALSE, answer |-> NoElement, selector |-> target]
    ELSE IF Accepted(detected)
    THEN [asked |-> TRUE, answer |-> detected, selector |-> detected.selector]
    ELSE IF found
    THEN [asked |-> TRUE, answer |-> detected, selector |-> pattern]
    ELSE [asked |-> TRUE, answer |-> detected, selector |-> NoTarget]

\* The ways resolving a target can go, over the locator's answers and the page.
Resolutions(target, pattern) ==
    {ResolveSelector(target, detected, pattern, found) :
        detected \in Detections, found \in BOOLEAN}

\* The calls of one full pass over the ladder, in program order: the backoff wait,
\* then screenshot + locator (vision-redetection), scroll + wait + screenshot + locator
\* (scroll-and-detect), wait + screenshot + locator (wait-and-detect).
LadderCalls ==
    <<"backoff", "screenshot", "locator", "scroll", "wait", "screenshot", "locator",
      "wait", "screenshot", "locator">>
\* The position of each rung's locator call, and the strategy the rung logs.
RungEnd == <<3, 7, 10>>
RungStrategy == <<"vision-redetection", "scroll-and-detect", "wait-and-detect">>
\* The waits of the ladder after the backoff, in milliseconds.
ScrollWaitMs == 500
DynamicContentWaitMs == 2000
\* findElement catches its own errors and returns null; every other call can throw.
ThrowingCalls == {i \in 1..Len(LadderCalls) : LadderCalls[i] # "locator"}

\* The rung whose candidate is accepted first (0: none) and the last call a pass
\* makes when nothing throws.
AcceptingRungLatest(detected) ==
    LET accepting == {r \in 1..3 : Accepted(detected[r])}
    IN IF accepting = {} THEN 0 ELSE CHOOSE r \in accepting : \A q \in accepting : r >= q
AcceptingRung(detected) ==
    LET accepting == {r \in 1..3 : Accepted(detected[r])}
    IN IF accepting = {} THEN 0 ELSE CHOOSE r \in accepting : \A q \in accepting : r <= q
LastCall(detected) ==
    IF AcceptingRung(detected) = 0 THEN Len(LadderCalls) ELSE RungEnd[AcceptingRung(detected)]

\* The ways one pass over the ladder can go: detected[r] is the locator's answer at
\* rung r and thrownAt the call that throws (0: none).  A locator call that is never
\* made (a rung after the accepted one, or after the throw) has no answer.
LadderRuns ==
    {run \in [detected : [1..3 -> Detections], thrownAt : {0} \cup ThrowingCalls] :
        /\ run.thrownAt <= LastCall(run.detected)
        /\ \A r \in 1..3 :
              (RungEnd[r] > (IF run.thrownAt = 0 THEN LastCall(run.detected) ELSE run.thrownAt))
                  => run.detected[r] = NoElement}

\* The backoff delay: baseDelayMs * 2^healingAttempts under the exponential policy,
\* baseDelayMs * (healingAttempts + 1) under the linear one.
BackoffDelay ==
    IF healingConfig.backoff = "exponential"
    THEN healingConfig.baseDelayMs * (2 ^ healingAttempts)
    ELSE healingConfig.baseDelayMs * (healingAttempts + 1)

\* The first n calls of a pass as heal makes them: the name of the call, the time a wait
\* is given, and what a locator call answers.
Calls(detected, n) ==
    [i \in 1..n |->
        [name |-> LadderCalls[i],
         ms |-> CASE i = 1 -> BackoffDelay
                  [] i = 5 -> ScrollWaitMs
                  [] i = 8 -> DynamicContentWaitMs
                  [] OTHER -> 0,
         answer |-> IF \E r \in 1..3 : RungEnd[r] = i
                    THEN detected[CHOOSE r \in 1..3 : RungEnd[r] = i]
                    ELSE NoElement]]

\* healNode's exhaustion guard, with its off-by-one variant.
HealingExhaustedLate == healingAttempts > healingConfig.maxRetries
HealingExhausted == healingAttempts >= healingConfig.maxRetries

\* healedAction with nothing of the action kept but its type.
healedActionOfType(action, selector) == [type |-> action.type, target |-> selector, value |-> NoText]

\* healedAction: { ...action, target: detected.selector }
healedAction(action, selector) == [action EXCEPT !.target = selector]

\* What healNode returns: the delta as the values the annotations' reducers leave, and
\* the calls it made.
healNode(detected, thrownAt) ==
    LET unchanged == [needsHealing |-> needsHealing, healingExhausted |-> healingExhausted,
                      healingAttempts |-> healingAttempts, currentAction |-> currentAction,
                      healingHistory |-> healingHistory, calls |-> <<>>]
        action == currentAction
        rung == AcceptingRung(detected)
        lastCall == LastCall(detected)
    IN  IF HealingExhausted
        THEN [unchanged EXCEPT
                !.needsHealing = FALSE,
                !.healingExhausted = TRUE,
                !.healingHistory =
                    Append(healingHistory,
                           HealingAttempt(healingAttempts, "exhausted", FALSE, NoTarget))]
        ELSE IF action = NoAction \/ action.target = NoTarget
        THEN [unchanged EXCEPT !.needsHealing = FALSE]
        ELSE IF thrownAt \in 1..lastCall
        THEN [unchanged EXCEPT
                !.needsHealing = TRUE,
                !.healingAttempts = healingAttempts + 1,
                !.healingHistory =
                    Append(healingHistory,
                           HealingAttempt(healingAttempts + 1, "error", FALSE, NoTarget)),
                !.calls = Calls(detected, thrownAt)]
        ELSE IF rung # 0
        THEN [unchanged EXCEPT
                !.currentAction = healedAction(action, detected[rung].selector),
                !.needsHealing = TRUE,
                !.healingAttempts = healingAttempts + 1,
                !.healingHistory =
                    Append(healingHistory,
                           HealingAttempt(healingAttempts + 1, RungStrategy[rung], TRUE,
                                          detected[rung].selector)),
                !.calls = Calls(detected, lastCall)]
        ELSE [unchanged EXCEPT
                !.needsHealing = TRUE,
                !.healingAttempts = healingAttempts + 1,
                !.healingHistory =
                    Append(healingHistory,
                           HealingAttempt(healingAttempts + 1, "all-strategies-failed", FALSE,
                                          NoTarget)),
                !.calls = Calls(detected, Len(LadderCalls))]

\* The heal edge without its test of the counter.
HealEdgeNoCeiling(attempts, healing, action) ==
    IF ~healing THEN "success"
    ELSE IF action = NoAction THEN "success"
    ELSE IF action.type \in {"click", "fill"} THEN action.type
    ELSE "success"

\* The heal edge ending the run once a step is out of retries.
HealEdgeGivesUp(attempts, healing, action) ==
    IF attempts >= healingConfig.maxRetries \/ ~healing THEN "finalize"
    ELSE IF action = NoAction THEN "success"
    ELSE IF action.type \in {"click", "fill"} THEN action.type
    ELSE "success"

\* The heal edge sending every repaired action back to the node of its type.
HealEdgeRetryingEveryType(attempts, healing, action) ==
    IF attempts >= healingConfig.maxRetries \/ ~healing THEN "success"
    ELSE IF action = NoAction THEN "success"
    ELSE IF action.type \in {"navigate", "click", "fill", "extract"} THEN action.type
    ELSE "success"

\* The conditional edge out of heal, on the state heal produced.
HealEdge(attempts, healing, action) ==
    IF attempts >= healingConfig.maxRetries \/ ~healing THEN "success"
    ELSE IF action = NoAction THEN "success"
    ELSE IF action.type \in {"click", "fill"} THEN action.type
    ELSE "success"

\* heal logging nothing when the step is out of retries.
HealSilentWhenExhausted ==
    /\ pc = "heal"
    /\ lastNode' = "heal"
    /\ resolved' = Follow(NoResolution)
    /\ \E run \in LadderRuns :
        LET delta == healNode(run.detected, run.thrownAt)
        IN /\ needsHealing' = delta.needsHealing
           /\ healingExhausted' = delta.healingExhausted
           /\ healingAttempts' = delta.healingAttempts
           /\ currentAction' = delta.currentAction
           /\ healingHistory' = IF HealingExhausted THEN healingHistory ELSE delta.healingHistory
           /\ healCalls' = delta.calls
    /\ pc' = HealEdge(healingAttempts', needsHealing', currentAction')
    /\ UNCHANGED <<evalVars, now, planVars, currentStep, results, lastError, extractedData, isComplete,
                   finalResult>>

\* heal node and its conditional edge.
Heal ==
    /\ pc = "heal"
    /\ lastNode' = "heal"
    /\ resolved' = Follow(NoResolution)
    /\ \E run \in LadderRuns :
        LET delta == healNode(run.detected, run.thrownAt)
        IN /\ needsHealing' = delta.needsHealing
           /\ healingExhausted' = delta.healingExhausted
           /\ healingAttempts' = delta.healingAttempts
           /\ currentAction' = delta.currentAction
           /\ healingHistory' = delta.healingHistory
           /\ healCalls' = delta.calls
    /\ pc' = HealEdge(healingAttempts', needsHealing', currentAction')
    /\ UNCHANGED <<evalVars, now, planVars, currentStep, results, lastError, extractedData, isComplete,
                   finalResult>>

\* ---------------------------------------------------------------- success
\* success leaving the healing counter of the step as it was.
SuccessKeepingCounter ==
    /\ pc = "success"
    /\ lastNode' = "success"
    /\ resolved' = Follow(NoResolution)
    /\ healCalls' = <<>>
    /\ currentStep' = currentStep + 1
    /\ needsHealing' = FALSE
    /\ pc' = "router"
    /\ UNCHANGED <<evalVars, now, planVars, currentAction, results, lastError, healingAttempts,
                   healingHistory, extractedData, isComplete, healingExhausted, finalResult>>

\* success leaving the cursor where it was.
SuccessWithoutAdvance ==
    /\ pc = "success"
    /\ lastNode' = "success"
    /\ resolved' = Follow(NoResolution)
    /\ healCalls' = <<>>
    /\ healingAttempts' = 0
    /\ needsHealing' = FALSE
    /\ pc' = "router"
    /\ UNCHANGED <<evalVars, now, planVars, currentStep, currentAction, results, lastError,
                   healingHistory, extractedData, isComplete, healingExhausted, finalResult>>

\* success node and the success -> router edge.
Success ==
    /\ pc = "success"
    /\ lastNode' = "success"
    /\ resolved' = Follow(NoResolution)
    /\ healCalls' = <<>>
    /\ currentStep' = currentStep + 1
    /\ healingAttempts' = 0
    /\ needsHealing' = FALSE
    /\ pc' = "router"
    /\ UNCHANGED <<evalVars, now, planVars, currentAction, results, lastError, healingHistory, extractedData,
                   isComplete, healingExhausted, finalResult>>

\* --------------------------------------------------------------- finalize
\* StepResult.screenshot of a result recorded without one.
NoScreenshot == <<>>

\* state.results.reduce((sum, r) => sum + r.duration, 0)
RECURSIVE TotalDuration(_)
TotalDuration(rs) ==
    IF rs = <<>> THEN 0 ELSE TotalDuration(SubSeq(rs, 1, Len(rs) - 1)) + Last(rs).duration

\* state.results.map((r) => r.screenshot).filter((s) => !!s)
Screenshots(rs) ==
    SelectSeq([i \in 1..Len(rs) |-> rs[i].screenshot], LAMBDA s : s # NoScreenshot)

\* The TaskResult with the completion test off by one.
FinalizeResultStrict ==
    LET lastStepSucceeded == IF Len(results) = 0 THEN FALSE ELSE Last(results).success
    IN [success |-> currentStep > totalSteps
                      \/ (lastStepSucceeded /\ DOMAIN extractedData # {}),
        data |-> extractedData,
        steps |-> results,
        healingAttempts |-> healingHistory,
        duration |-> TotalDuration(results),
        screenshots |-> Screenshots(results),
        final |-> TRUE]

\* The TaskResult with the recovery test satisfied by either of its two conditions.
FinalizeResultEitherCondition ==
    LET lastStepSucceeded == IF Len(results) = 0 THEN FALSE ELSE Last(results).success
    IN [success |-> currentStep >= totalSteps
                      \/ (lastStepSucceeded \/ DOMAIN extractedData # {}),
        data |-> extractedData,
        steps |-> results,
        healingAttempts |-> healingHistory,
        duration |-> TotalDuration(results),
        screenshots |-> Screenshots(results),
        final |-> TRUE]

\* The TaskResult with the screenshot of every step, captured or not.
FinalizeResultEveryScreenshot ==
    LET lastStepSucceeded == IF Len(results) = 0 THEN FALSE ELSE Last(results).success
    IN [success |-> currentStep >= totalSteps
                      \/ (lastStepSucceeded /\ DOMAIN extractedData # {}),
        data |-> extractedData,
        steps |-> results,
        healingAttempts |-> healingHistory,
        duration |-> TotalDuration(results),
        screenshots |-> [i \in 1..Len(results) |-> results[i].screenshot],
        final |-> TRUE]

\* The TaskResult the finalize node computes.
FinalizeResult ==
    LET lastStepSucceeded == IF Len(results) = 0 THEN FALSE ELSE Last(results).success
    IN [success |-> currentStep >= totalSteps
                      \/ (lastStepSucceeded /\ DOMAIN extractedData # {}),
        data |-> extractedData,
        steps |-> results,
        healingAttempts |-> healingHistory,
        duration |-> TotalDuration(results),
        screenshots |-> Screenshots(results),
        final |-> TRUE]

\* finalize with an edge back to itself, taken once.
FinalizeTwice ==
    /\ pc = "finalize"
    /\ lastNode' = "finalize"
    /\ resolved' = Follow(NoResolution)
    /\ healCalls' = <<>>
    /\ finalResult' = FinalizeResult
    /\ pc' = IF lastNode = "finalize" THEN "END" ELSE "finalize"
    /\ UNCHANGED <<evalVars, now, planVars, currentStep, currentAction, results, lastError, healingAttempts,
                   healingHistory, extractedData, needsHealing, isComplete,
                   healingExhausted>>

\* finalize node and the finalize -> END edge.
Finalize ==
    /\ pc = "finalize"
    /\ lastNode' = "finalize"
    /\ resolved' = Follow(NoResolution)
    /\ healCalls' = <<>>
    /\ finalResult' = FinalizeResult
    /\ pc' = "END"
    /\ UNCHANGED <<evalVars, now, planVars, currentStep, currentAction, results, lastError, healingAttempts,
                   healingHistory, extractedData, needsHealing, isComplete,
                   healingExhausted>>

\* ------------------------------------------------------------ action nodes
\* The edge out of an action node ending the run when the action failed.
ActionEdgeGivingUp(healing) == IF healing THEN "finalize" ELSE "success"

\* The conditional edge out of every action node.
ActionEdge(healing) == IF healing THEN "heal" ELSE "success"

\* captureScreenshot(page): the base64 text of the image, told apart by the StepResult it
\* is taken for.
Capture == <<"png", Len(results) + 1>>

\* StepResult { action, success, error?, duration, screenshot?, healingUsed }, with the
\* cursor as `step` and the extractedData the node returned with it as `extracted`.
StepResult(action, success, error, duration, screenshot, healingUsed, extracted) ==
    [action |-> action, success |-> success, error |-> error, duration |-> duration,
     screenshot |-> screenshot, healingUsed |-> healingUsed, step |-> currentStep,
     extracted |-> extracted]

\* The opening guard without its test of the target.
NotExecutableIgnoringTarget(type) ==
    \/ currentAction = NoAction
    \/ currentAction.type # type

\* `!action || action.type !== T || !action.target`: the guard every action node opens with.
NotExecutable(type) ==
    \/ currentAction = NoAction
    \/ currentAction.type # type
    \/ currentAction.target = NoTarget

\* clickNode: isSearchButtonClick, on the targets of the model.
IsSearchButtonClick(target) == target \in PlannedTargets

\* The delta of an action node that returns early: { needsHealing: false }.
EarlyReturn ==
    /\ needsHealing' = FALSE
    /\ pc' = ActionEdge(FALSE)
    /\ UNCHANGED <<results, lastError, healingAttempts, extractedData, now>>

\* The delta of a successful attempt: duration = Date.now() - startTime, and the
\* screenshot every action node captures on its way to success.
Succeeded(healingUsed, data) ==
    /\ \E end \in now..MaxTime :
          /\ now' = end
          /\ results' = Append(results, StepResult(currentAction, TRUE, NoError, end - now,
                                                  Capture, healingUsed, data))
    /\ extractedData' = MergeData(extractedData, data)
    /\ needsHealing' = FALSE
    /\ pc' = ActionEdge(FALSE)
    /\ UNCHANGED <<lastError, healingAttempts>>

\* A failed attempt that records no StepResult.
FailedUnrecorded(error, screenshot, healingUsed, bump) ==
    /\ lastError' = error
    /\ needsHealing' = TRUE
    /\ healingAttempts' = healingAttempts + bump
    /\ pc' = ActionEdge(TRUE)
    /\ UNCHANGED <<results, extractedData, now>>

\* A failed attempt that leaves the healing counter alone in every node.
FailedNotCounted(error, screenshot, healingUsed, bump) ==
    /\ \E end \in now..MaxTime :
          /\ now' = end
          /\ results' = Append(results, StepResult(currentAction, FALSE, error, end - now,
                                                  screenshot, healingUsed, <<>>))
    /\ lastError' = error
    /\ needsHealing' = TRUE
    /\ healingAttempts' = healingAttempts
    /\ pc' = ActionEdge(TRUE)
    /\ UNCHANGED extractedData

\* The delta of a failed attempt: duration = Date.now() - startTime; the catch blocks of
\* extract, click and fill capture a screenshot, the one of navigate does not; click
\* and fill also bump the healing counter.
Failed(error, screenshot, healingUsed, bump) ==
    /\ \E end \in now..MaxTime :
          /\ now' = end
          /\ results' = Append(results, StepResult(currentAction, FALSE, error, end - now,
                                                  screenshot, healingUsed, <<>>))
    /\ lastError' = error
    /\ needsHealing' = TRUE
    /\ healingAttempts' = healingAttempts + bump
    /\ pc' = ActionEdge(TRUE)
    /\ UNCHANGED extractedData

\* An exception that leaves the node: the run ends without a result.
Thrown ==
    /\ pc' = "aborted"
    /\ UNCHANGED <<results, lastError, healingAttempts, extractedData, needsHealing, now>>

nodeFrame ==
    <<evalVars, planVars, currentStep, currentAction, healingHistory, isComplete, healingExhausted,
      finalResult>>

\* navigateNode and its conditional edge.  Its catch block makes no call that can fail.
Navigate ==
    /\ pc = "navigate"
    /\ lastNode' = "navigate"
    /\ resolved' = Follow(NoResolution)
    /\ healCalls' = <<>>
    /\ IF NotExecutable("navigate")
       THEN EarlyReturn
       ELSE \E outcome \in {"ok", "failed"} :
            CASE outcome = "ok" -> Succeeded(FALSE, <<>>)
              [] outcome = "failed" -> Failed("NavigationError", NoScreenshot, FALSE, 0)
    /\ UNCHANGED nodeFrame

\* extractNode and its conditional edge.  The catch block captures a screenshot,
\* which can itself throw.
Extract ==
    /\ pc = "extract"
    /\ lastNode' = "extract"
    /\ resolved' = Follow(NoResolution)
    /\ healCalls' = <<>>
    /\ IF NotExecutable("extract")
       THEN EarlyReturn
       ELSE \E outcome \in {"ok", "failed", "throws"}, data \in ExtractOutputs :
            CASE outcome = "ok" -> Succeeded(FALSE, data)
              [] outcome = "failed" -> Failed("ExtractionError", Capture, FALSE, 0)
              [] outcome = "throws" -> Thrown
    /\ UNCHANGED nodeFrame

\* clickNode and its conditional edge.  Resolving the target (the locator, then the
\* selector patterns) and the click itself either all succeed or end in the catch
\* block; a search-button click can be skipped, which counts as a success; the URL
\* check of the skip and the screenshot of the catch block can throw.
Click ==
    /\ pc = "click"
    /\ lastNode' = "click"
    /\ healCalls' = <<>>
    /\ IF NotExecutable("click")
       THEN EarlyReturn /\ resolved' = Follow(NoResolution)
       ELSE LET target == currentAction.target
                healingUsed == healingAttempts > 0
                outcomes == {"ok", "failed", "throws"}
                              \cup (IF IsSearchButtonClick(target) THEN {"skipped"} ELSE {})
            IN \E outcome \in outcomes,
                  resolution \in Resolutions(target, ClickPattern(target)) \cup {NoResolution} :
               /\ (outcome = "ok") => (resolution.selector # NoTarget)
               /\ (outcome = "skipped") => (resolution = NoResolution)
               /\ resolved' = Follow(resolution)
               /\ CASE outcome = "ok" -> Succeeded(healingUsed, <<>>)
                    [] outcome = "skipped" -> Succeeded(FALSE, <<>>)
                    [] outcome = "failed" -> Failed("ClickError", Capture, healingUsed, 1)
                    [] outcome = "throws" -> Thrown
    /\ UNCHANGED nodeFrame

\* fillNode and its conditional edge.  Resolving the target, filling and the Enter key
\* of a search input either all succeed or end in the catch block, whose screenshot
\* can throw.
Fill ==
    /\ pc = "fill"
    /\ lastNode' = "fill"
    /\ healCalls' = <<>>
    /\ IF NotExecutable("fill")
       THEN EarlyReturn /\ resolved' = Follow(NoResolution)
       ELSE LET target == currentAction.target
                healingUsed == healingAttempts > 0
            IN \E outcome \in {"ok", "failed", "throws"},
                  resolution \in Resolutions(target, FillPattern(target)) \cup {NoResolution} :
               /\ (outcome = "ok") => (resolution.selector # NoTarget)
               /\ resolved' = Follow(resolution)
               /\ CASE outcome = "ok" -> Succeeded(healingUsed, <<>>)
                    [] outcome = "failed" -> Failed("FillError", Capture, healingUsed, 1)
                    [] outcome = "throws" -> Thrown
    /\ UNCHANGED nodeFrame

Next ==
    \/ Plan
    \/ Router
    \/ Navigate
    \/ Click
    \/ Fill
    \/ Extract
    \/ Heal
    \/ Success
    \/ Finalize

Spec == Init /\ [][Next]_vars

\* The agent graph run to its end: LangGraph runs the node an edge leads to, so a step
\* that can be taken is taken; every call to a collaborator is taken to return or throw.
LiveInit == Init /\ healingConfig.maxRetries <= MaxRetriesLive
LiveSpec == LiveInit /\ [][Next]_vars /\ WF_vars(Next)

\* The agent graph with healing switched off in the configuration.
DisabledSpec == DisabledInit /\ [][Next]_vars

\* The same start with the clock at its first reading, so that the action nodes measure
\* elapsed times that differ, under the smallest ceiling of the configuration schema.
TimedInit ==
    /\ healingConfig \in [enabled : {TRUE}, maxRetries : {MinRetries},
                           backoff : {"exponential"}, baseDelayMs : {DefaultBaseDelayMs}]
    /\ pc = "plan"
    /\ lastNode = "START"
    /\ actions = <<>>
    /\ currentStep = 0
    /\ totalSteps = 0
    /\ currentAction = NoAction
    /\ results = <<>>
    /\ lastError = NoError
    /\ healingAttempts = 0
    /\ healingHistory = <<>>
    /\ extractedData = <<>>
    /\ needsHealing = FALSE
    /\ isComplete = FALSE
    /\ healingExhausted = FALSE
    /\ finalResult = NoResult
    /\ healCalls = <<>>
    /\ now = 0
    /\ resolved = NotFollowed
    /\ NoEvaluation

TimedSpec == TimedInit /\ [][Next]_vars

\* The same start under either backoff policy, with a ceiling that lets a click or fill
\* step go through two passes of the ladder.
BackoffInit ==
    /\ healingConfig \in [enabled : {TRUE}, maxRetries : {BackoffRetries},
                           backoff : {"linear", "exponential"},
                           baseDelayMs : {DefaultBaseDelayMs}]
    /\ pc = "plan"
    /\ lastNode = "START"
    /\ actions = <<>>
    /\ currentStep = 0
    /\ totalSteps = 0
    /\ currentAction = NoAction
    /\ results = <<>>
    /\ lastError = NoError
    /\ healingAttempts = 0
    /\ healingHistory = <<>>
    /\ extractedData = <<>>
    /\ needsHealing = FALSE
    /\ isComplete = FALSE
    /\ healingExhausted = FALSE
    /\ finalResult = NoResult
    /\ healCalls = <<>>
    /\ now = MaxTime
    /\ resolved = NotFollowed
    /\ NoEvaluation

BackoffSpec == BackoffInit /\ [][Next]_vars

\* The same start with the resolution of targets in click and fill followed.
ResolvingInit ==
    /\ healingConfig \in [enabled : {TRUE}, maxRetries : {BackoffRetries},
                           backoff : {"exponential"}, baseDelayMs : {DefaultBaseDelayMs}]
    /\ pc = "plan"
    /\ lastNode = "START"
    /\ actions = <<>>
    /\ currentStep = 0
    /\ totalSteps = 0
    /\ currentAction = NoAction
    /\ results = <<>>
    /\ lastError = NoError
    /\ healingAttempts = 0
    /\ healingHistory = <<>>
    /\ extractedData = <<>>
    /\ needsHealing = FALSE
    /\ isComplete = FALSE
    /\ healingExhausted = FALSE
    /\ finalResult = NoResult
    /\ healCalls = <<>>
    /\ now = MaxTime
    /\ resolved = NoResolution
    /\ NoEvaluation

ResolvingSpec == ResolvingInit /\ [][Next]_vars

\* -------------------------------------------------------------- evaluation
\* The --k option's default, '1,3,5'.
DefaultKValues == <<1, 3, 5>>

\* String(error) of what agent.run can throw: the planner's rethrow, or an exception
\* that left an action node.
RunErrors == {"Error: Failed to plan task", "Error: Screenshot timeout"}
GradeError == "Did not meet expected outcome"

\* What one run pushes onto runResults: a graded TaskResult (try block) or the
\* exception agent.run threw (catch block).
RunOutcomes ==
    {[success |-> TRUE, error |-> NoError], [success |-> FALSE, error |-> GradeError]}
        \cup {[success |-> FALSE, error |-> e] : e \in RunErrors}

Min(a, b) == IF a <= b THEN a ELSE b
Max(a, b) == IF a >= b THEN a ELSE b

\* Array.prototype.slice(0, end) for an integer end: a negative end counts from the
\* end of the array.
Slice(arr, end) ==
    LET len == Len(arr)
        final == IF end < 0 THEN Max(len + end, 0) ELSE Min(end, len)
    IN SubSeq(arr, 1, final)

\* calculatePassAtK: results.slice(0, k).some((success) => success)
calculatePassAtK(rs, k) ==
    LET firstK == Slice(rs, k)
    IN \E i \in 1..Len(firstK) : firstK[i]

\* arr.indexOf(e), from 1; 0 when absent.
IndexOf(arr, e) ==
    LET at == {i \in 1..Len(arr) : arr[i] = e}
    IN IF at = {} THEN 0 ELSE CHOOSE i \in at : \A j \in at : i <= j

\* arr.filter((e, i, arr) => arr.indexOf(e) === i)
RECURSIVE UniquePrefix(_, _)
UniquePrefix(arr, n) ==
    IF n = 0 THEN <<>>
    ELSE IF IndexOf(arr, arr[n]) = n THEN Append(UniquePrefix(arr, n - 1), arr[n])
    ELSE UniquePrefix(arr, n - 1)
Unique(arr) == UniquePrefix(arr, Len(arr))

\* runResults.map((r) => r.success)
Successes(rs) == [i \in 1..Len(rs) |-> rs[i].success]

\* runResults.filter((r) => r.error).map((r) => r.error)
Errors(rs) ==
    LET failed == SelectSeq(rs, LAMBDA r : r.error # NoError)
    IN [i \in 1..Len(failed) |-> failed[i].error]

\* The EvalResult pushed for a scenario (avgDuration left out).
EvalResult(rs) ==
    [scenario |-> scenarioIndex,
     attempts |-> evalOptions.runsPerScenario,
     successes |-> Len(SelectSeq(rs, LAMBDA r : r.success)),
     failures |-> Len(SelectSeq(rs, LAMBDA r : ~r.success)),
     passAtK |-> [k \in {evalOptions.kValues[i] : i \in DOMAIN evalOptions.kValues} |->
                    calculatePassAtK(Successes(rs), k)],
     errors |-> Unique(Errors(rs))]

\* Where the runner stands at the head of the inner loop.
RunLoop(next) == IF next < evalOptions.runsPerScenario THEN "createAgent" ELSE "summary"

\* The graph variables while the runner is modelled: agent.run is taken as one step.
NoTaskRun ==
    /\ healingConfig = [enabled |-> TRUE, maxRetries |-> MinRetries, backoff |-> "exponential",
                        baseDelayMs |-> DefaultBaseDelayMs]
    /\ pc = "idle"
    /\ lastNode = "START"
    /\ actions = <<>>
    /\ currentStep = 0
    /\ totalSteps = 0
    /\ currentAction = NoAction
    /\ results = <<>>
    /\ lastError = NoError
    /\ healingAttempts = 0
    /\ healingHistory = <<>>
    /\ extractedData = <<>>
    /\ needsHealing = FALSE
    /\ isComplete = FALSE
    /\ healingExhausted = FALSE
    /\ finalResult = NoResult
    /\ healCalls = <<>>
    /\ now = MaxTime
    /\ resolved = NotFollowed

\* runEvaluation entered, scenarios loaded.
EvalInit ==
    /\ NoTaskRun
    /\ evalOptions \in [runsPerScenario : 0..MaxRuns, kValues : {DefaultKValues},
                         scenarios : 0..MaxScenarios]
    /\ evalPc = IF evalOptions.scenarios = 0 THEN "report" ELSE RunLoop(0)
    /\ scenarioIndex = 1
    /\ runIndex = 0
    /\ runResults = <<>>
    /\ scenarioResults = <<>>
    /\ report = NoReport
    /\ liveSessions = 0
    /\ call = NoCall
    /\ returned = NoReturn

\* `const agent = await createAgent(config)`, which stands before the try block:
\* browser.initialize() launches the browser, then opens a context and a page.  An
\* exception of the launch, or of a later step with the browser already launched,
\* leaves createAgent and runEvaluation.
CreateAgent ==
    /\ evalPc = "createAgent"
    /\ \E outcome \in {"initialized", "launch failed", "failed after launch"} :
        /\ liveSessions' = IF outcome = "launch failed" THEN liveSessions ELSE liveSessions + 1
        /\ evalPc' = IF outcome = "initialized" THEN "run" ELSE "thrown"
    /\ UNCHANGED <<graphVars, evalOptions, scenarioIndex, runIndex, runResults,
                   scenarioResults, report, call, returned>>

\* The try and catch blocks of one run: agent.run, grading, and the push.
AgentRun ==
    /\ evalPc = "run"
    /\ \E outcome \in RunOutcomes : runResults' = Append(runResults, outcome)
    /\ evalPc' = "close"
    /\ UNCHANGED <<graphVars, evalOptions, scenarioIndex, runIndex, scenarioResults, report,
                   liveSessions, call, returned>>

\* The finally block, agent.close(), and the loop increment.  BrowserClient.close
\* gives each close five seconds and swallows its failure or timeout, after which the
\* browser it could not close is still there.
AgentClose ==
    /\ evalPc = "close"
    /\ \E closed \in BOOLEAN : liveSessions' = IF closed THEN liveSessions - 1 ELSE liveSessions
    /\ runIndex' = runIndex + 1
    /\ evalPc' = RunLoop(runIndex + 1)
    /\ UNCHANGED <<graphVars, evalOptions, scenarioIndex, runResults, scenarioResults, report,
                   call, returned>>

\* The rest of the scenario loop's body: the EvalResult, and the next scenario.
ScenarioSummary ==
    /\ evalPc = "summary"
    /\ scenarioResults' = Append(scenarioResults, EvalResult(runResults))
    /\ IF scenarioIndex < evalOptions.scenarios
       THEN /\ scenarioIndex' = scenarioIndex + 1
            /\ runIndex' = 0
            /\ runResults' = <<>>
            /\ evalPc' = RunLoop(0)
       ELSE /\ evalPc' = "report"
            /\ UNCHANGED <<scenarioIndex, runIndex, runResults>>
    /\ UNCHANGED <<graphVars, evalOptions, report, liveSessions, call, returned>>

\* The scenarios that pass at k; a k that is not among kValues has no entry.
PassingAt(k) ==
    Len(SelectSeq(scenarioResults, LAMBDA r : k \in DOMAIN r.passAtK /\ r.passAtK[k]))

\* The report (the rates as their numerators over totalScenarios).
Report ==
    /\ evalPc = "report"
    /\ report' = [totalScenarios |-> Len(scenarioResults), passAt1 |-> PassingAt(1),
                  passAt3 |-> PassingAt(3), passAt5 |-> PassingAt(5), final |-> TRUE]
    /\ evalPc' = "done"
    /\ UNCHANGED <<graphVars, evalOptions, scenarioIndex, runIndex, runResults,
                   scenarioResults, liveSessions, call, returned>>

EvalNext == CreateAgent \/ AgentRun \/ AgentClose \/ ScenarioSummary \/ Report

EvalSpec == EvalInit /\ [][EvalNext]_vars

\* ------------------------------------------------- calculatePassAtK, called
\* The k values a caller can pass: kValues is options.k.split(',').map(Number), with
\* no check of sign or range.
KValues == (0 - MaxNegativeK)..(MaxRuns + 1)

PassAtKCalls ==
    {[fn |-> "calculatePassAtK", results |-> rs, k |-> k] :
        rs \in SeqsUpTo(BOOLEAN, MaxRuns), k \in KValues}

PassAtKInit ==
    /\ NoTaskRun
    /\ NoRunner
    /\ call \in PassAtKCalls
    /\ returned = NoReturn

\* One call of calculatePassAtK(results, k).
CalculatePassAtK ==
    /\ call.fn = "calculatePassAtK"
    /\ ~returned.done
    /\ returned' = [done |-> TRUE, value |-> calculatePassAtK(call.results, call.k)]
    /\ UNCHANGED <<graphVars, evalOptions, evalPc, scenarioIndex, runIndex, runResults,
                   scenarioResults, report, liveSessions, call>>

PassAtKNext == CalculatePassAtK

PassAtKSpec == PassAtKInit /\ [][PassAtKNext]_vars

\* -------------------------------------------------- estimatePassAtK, called
\* The numbers estimatePassAtK computes with, as exact fractions <<numerator,
\* denominator>> with a positive denominator.
Rat(num, den) == <<num, den>>
RatMul(a, b) == <<a[1] * b[1], a[2] * b[2]>>
RatOneMinus(a) == <<a[2] - a[1], a[2]>>
RatEq(a, b) == a[1] * b[2] = b[1] * a[2]
RatLeq(a, b) == a[1] * b[2] <= b[1] * a[2]

\* The loop with the factor that forgets the draws already made.
RECURSIVE RatioWithoutDraws(_, _, _)
RatioWithoutDraws(n, c, k) ==
    IF k <= 0 THEN Rat(1, 1)
    ELSE RatMul(RatioWithoutDraws(n, c, k - 1), Rat(n - c, n - (k - 1)))

\* let ratio = 1; for (let i = 0; i < k; i++) ratio *= (n - c - i) / (n - i);
RECURSIVE Ratio(_, _, _)
Ratio(n, c, k) ==
    IF k <= 0 THEN Rat(1, 1)
    ELSE RatMul(Ratio(n, c, k - 1), Rat(n - c - (k - 1), n - (k - 1)))

\* The estimator answering 1 for every n < k.
estimatePassAtKShortOfSamples(n, c, k) ==
    IF n < k THEN Rat(1, 1)
    ELSE IF c = 0 THEN Rat(0, 1)
    ELSE IF c >= n THEN Rat(1, 1)
    ELSE RatOneMinus(Ratio(n, c, k))

\* The estimator returning the ratio itself.
estimatePassAtKComplement(n, c, k) ==
    IF n < k THEN (IF c > 0 THEN Rat(1, 1) ELSE Rat(0, 1))
    ELSE IF c = 0 THEN Rat(0, 1)
    ELSE IF c >= n THEN Rat(1, 1)
    ELSE Ratio(n, c, k)

\* estimatePassAtK(n, c, k)
estimatePassAtK(n, c, k) ==
    IF n < k THEN (IF c > 0 THEN Rat(1, 1) ELSE Rat(0, 1))
    ELSE IF c = 0 THEN Rat(0, 1)
    ELSE IF c >= n THEN Rat(1, 1)
    ELSE RatOneMinus(Ratio(n, c, k))

EstimateCalls ==
    {[fn |-> "estimatePassAtK", n |-> n, c |-> c, k |-> k] :
        n \in 0..MaxSamples, c \in 0..MaxSamples, k \in 0..MaxSamples + 1}

EstimateInit ==
    /\ NoTaskRun
    /\ NoRunner
    /\ call \in {e \in EstimateCalls : e.c <= e.n}
    /\ returned = [done |-> FALSE, value |-> Rat(0, 1)]

\* One call of estimatePassAtK(n, c, k).
EstimatePassAtK ==
    /\ call.fn = "estimatePassAtK"
    /\ ~returned.done
    /\ returned' = [done |-> TRUE, value |-> estimatePassAtK(call.n, call.c, call.k)]
    /\ UNCHANGED <<graphVars, evalOptions, evalPc, scenarioIndex, runIndex, runResults,
                   scenarioResults, report, liveSessions, call>>

EstimateNext == EstimatePassAtK

EstimateSpec == EstimateInit /\ [][EstimateNext]_vars

\* ------------------------------------------------------ gradeResult, called
\* Strings are sequences of characters; toLowerCase maps the one capital of the
\* alphabet used here.
ToLowerCase(str) == [i \in 1..Len(str) |-> IF str[i] = "T" THEN "t" ELSE str[i]]

\* String.prototype.includes
Includes(str, sub) ==
    \E i \in 0..Len(str) - Len(sub) : SubSeq(str, i + 1, i + Len(sub)) = sub

\* JSON values: kind, the characters of a string, the items of an array or the
\* <<key, value>> entries of an object.
JsString(chars) == [kind |-> "string", chars |-> chars, items |-> <<>>]
JsArray(items) == [kind |-> "array", chars |-> <<>>, items |-> items]
JsObject(entries) == [kind |-> "object", chars |-> <<>>, items |-> entries]
JsNull == [kind |-> "null", chars |-> <<>>, items |-> <<>>]
JsUndefined == [kind |-> "undefined", chars |-> <<>>, items |-> <<>>]

\* JSON.stringify of a defined value (none of the strings here needs escaping).
RECURSIVE Stringify(_)
RECURSIVE StringifyItems(_, _)
RECURSIVE StringifyEntries(_, _)
StringifyItems(items, n) ==
    IF n = 0 THEN <<>>
    ELSE StringifyItems(items, n - 1) \o (IF n > 1 THEN <<",">> ELSE <<>>)
           \o Stringify(items[n])
StringifyEntries(entries, n) ==
    IF n = 0 THEN <<>>
    ELSE StringifyEntries(entries, n - 1) \o (IF n > 1 THEN <<",">> ELSE <<>>)
           \o <<"\"">> \o entries[n][1] \o <<"\"", ":">> \o Stringify(entries[n][2])
Stringify(v) ==
    IF v.kind = "string" THEN <<"\"">> \o v.chars \o <<"\"">>
    ELSE IF v.kind = "array" THEN <<"[">> \o StringifyItems(v.items, Len(v.items)) \o <<"]">>
    ELSE IF v.kind = "object"
    THEN <<"{">> \o StringifyEntries(v.items, Len(v.items)) \o <<"}">>
    ELSE <<"n", "u", "l", "l">>

\* current[part]: an own property of an object; an array has none of the keys used
\* here.
Property(current, part) ==
    LET at == {i \in 1..Len(current.items) : current.items[i][1] = part}
    IN IF current.kind # "object" \/ at = {} THEN JsUndefined
       ELSE current.items[CHOOSE i \in at : TRUE][2]

\* getNestedField over path.split('.')
RECURSIVE getNestedField(_, _)
getNestedField(current, parts) ==
    IF parts = <<>> THEN current
    ELSE IF current.kind \in {"null", "undefined"} THEN JsUndefined
    ELSE IF current.kind \notin {"object", "array"} THEN JsUndefined
    ELSE getNestedField(Property(current, Head(parts)), Tail(parts))

checkContains(data, field, value) ==
    LET fieldValue == getNestedField(data, field)
        needle == ToLowerCase(value)
    IN IF data.kind = "undefined" THEN FALSE
       ELSE IF fieldValue.kind = "undefined" THEN FALSE
       ELSE IF fieldValue.kind = "string" THEN Includes(ToLowerCase(fieldValue.chars), needle)
       ELSE IF fieldValue.kind = "array"
       THEN \E i \in 1..Len(fieldValue.items) :
               LET item == fieldValue.items[i]
               IN IF item.kind = "string" THEN Includes(ToLowerCase(item.chars), needle)
                  ELSE Includes(ToLowerCase(Stringify(item)), needle)
       ELSE Includes(ToLowerCase(Stringify(fieldValue)), needle)

checkEquals(data, field, value) ==
    LET fieldValue == getNestedField(data, field)
    IN IF data.kind = "undefined" THEN FALSE
       ELSE IF fieldValue.kind = "undefined" THEN FALSE
       ELSE IF fieldValue.kind = "string" THEN fieldValue.chars = value
       ELSE Stringify(fieldValue) = value

\* regex.test for a pattern of plain letters: a case-sensitive search.
RegexTest(pattern, str) == Includes(str, pattern)

checkMatches(data, field, pattern) ==
    LET fieldValue == getNestedField(data, field)
    IN IF data.kind = "undefined" THEN FALSE
       ELSE IF fieldValue.kind = "undefined" THEN FALSE
       ELSE IF fieldValue.kind = "string" THEN RegexTest(pattern, fieldValue.chars)
       ELSE IF fieldValue.kind = "array"
       THEN \E i \in 1..Len(fieldValue.items) :
               LET item == fieldValue.items[i]
               IN IF item.kind = "string" THEN RegexTest(pattern, item.chars)
                  ELSE RegexTest(pattern, Stringify(item))
       ELSE RegexTest(pattern, Stringify(fieldValue))

\* expected.field and expected.value when absent (or empty, which `!` treats alike).
NoField == <<>>
NoValue == <<>>

\* Object.keys(result.data ?? {}).length > 0
HasData(data) == data.kind = "object" /\ Len(data.items) > 0

\* gradeResult with `exists` satisfied by extracted data only.
gradeResultDataOnly(result, expected) ==
    IF result.isNull THEN FALSE
    ELSE IF ~result.success THEN FALSE
    ELSE IF expected.type = "exists" THEN result.success /\ HasData(result.data)
    ELSE IF expected.type \in {"contains", "equals", "matches"}
              /\ (expected.field = NoField \/ expected.value = NoValue)
    THEN result.success
    ELSE IF expected.type = "contains"
    THEN checkContains(result.data, expected.field, expected.value)
    ELSE IF expected.type = "equals"
    THEN checkEquals(result.data, expected.field, expected.value)
    ELSE IF expected.type = "matches"
    THEN checkMatches(result.data, expected.field, expected.value)
    ELSE result.success

gradeResult(result, expected) ==
    IF result.isNull THEN FALSE
    ELSE IF ~result.success THEN FALSE
    ELSE IF expected.type = "exists"
    THEN result.success /\ (HasData(result.data) \/ result.steps > 0)
    ELSE IF expected.type \in {"contains", "equals", "matches"}
              /\ (expected.field = NoField \/ expected.value = NoValue)
    THEN result.success
    ELSE IF expected.type = "contains"
    THEN checkContains(result.data, expected.field, expected.value)
    ELSE IF expected.type = "equals"
    THEN checkEquals(result.data, expected.field, expected.value)
    ELSE IF expected.type = "matches"
    THEN checkMatches(result.data, expected.field, expected.value)
    ELSE result.success

\* The strings, extracted data, results and expected outcomes gradeResult is called
\* with.
Words == {<<"T", "o">>, <<"t", "o">>, <<"o">>}
Title == <<"t", "i">>
Meta == <<"m", "e">>
GradedData ==
    {JsUndefined,
     JsObject(<<>>),
     JsObject(<< <<Title, JsString(<<"T", "o">>)>> >>),
     JsObject(<< <<Title, JsArray(<<JsString(<<"o">>), JsString(<<"T", "o">>)>>)>> >>),
     JsObject(<< <<Title, JsNull>> >>),
     JsObject(<< <<Meta, JsObject(<< <<Title, JsString(<<"t", "o">>)>> >>)>> >>)}
GradedResults ==
    {[isNull |-> TRUE, success |-> FALSE, data |-> JsUndefined, steps |-> 0]}
        \cup [isNull : {FALSE}, success : BOOLEAN, data : GradedData, steps : 0..1]
ExpectedOutcomes ==
    [type : {"exists", "contains", "equals", "matches", "other"},
     field : {NoField, <<Title>>, <<Meta, Title>>, <<Title, Meta>>, <<Meta, Meta>>},
     value : {NoValue} \cup Words]

GradeInit ==
    /\ NoTaskRun
    /\ NoRunner
    /\ call \in [fn : {"gradeResult"}, result : GradedResults, expected : ExpectedOutcomes]
    /\ returned = NoReturn

\* One call of gradeResult(result, expected).
GradeResult ==
    /\ call.fn = "gradeResult"
    /\ ~returned.done
    /\ returned' = [done |-> TRUE, value |-> gradeResult(call.result, call.expected)]
    /\ UNCHANGED <<graphVars, evalOptions, evalPc, scenarioIndex, runIndex, runResults,
                   scenarioResults, report, liveSessions, call>>

GradeNext == GradeResult

GradeSpec == GradeInit /\ [][GradeNext]_vars
\* ================================================================== claims
\* The StepResults and HealingAttempts recorded while the cursor was at step s.
ResultsOf(s) == SelectSeq(results, LAMBDA r : r.step = s)
HealsOf(s) == SelectSeq(healingHistory, LAMBDA h : h.step = s)
HealJustLogged(strategies) ==
    /\ lastNode = "heal"
    /\ healingHistory # <<>>
    /\ Last(healingHistory).step = currentStep
    /\ Last(healingHistory).strategy \in strategies
ExhaustedLogged(s) == \E i \in 1..Len(healingHistory) :
    healingHistory[i].step = s /\ healingHistory[i].strategy = "exhausted"

\* C1: in every reachable state the per-step healing counter is at most
\* healingConfig.maxRetries, for every configured maxRetries and every sequence of
\* executor and healing outcomes.
C1_CounterWithinCeiling == healingAttempts <= healingConfig.maxRetries

\* C1 witness: the counter has reached the largest ceiling explored, after both a
\* failed attempt and a healing pass counted towards it.
C1_CounterAtCeiling ==
    /\ healingConfig.maxRetries = MaxRetriesChecked
    /\ healingAttempts = healingConfig.maxRetries
    /\ HealsOf(currentStep) # <<>>

\* C2: a heal invoked with the counter at the ceiling appends one exhausted entry with
\* elementFound = false, clears needsHealing, leaves the counter and the current action
\* alone and makes no backoff, locator, scroll or wait call; from then on the step sees
\* no further healing pass and no executor: the only node that follows is success.
C2_ExhaustedHealStops ==
    /\ [][(pc = "heal" /\ healingAttempts >= healingConfig.maxRetries) =>
            /\ Len(healingHistory') = Len(healingHistory) + 1
            /\ SubSeq(healingHistory', 1, Len(healingHistory)) = healingHistory
            /\ Last(healingHistory').strategy = "exhausted"
            /\ Last(healingHistory').elementFound = FALSE
            /\ needsHealing' = FALSE
            /\ healingAttempts' = healingAttempts
            /\ currentAction' = currentAction
            /\ healCalls' = <<>>
            /\ pc' = "success"]_vars
    /\ [](ExhaustedLogged(currentStep) =>
            /\ pc = "success"
            /\ Last(HealsOf(currentStep)).strategy = "exhausted")

\* C2 witness: heal has just reported exhaustion for the current step.
C2_ExhaustionReported == HealJustLogged({"exhausted"})
\* C3: whenever heal produces a repaired action (a HealingAttempt with elementFound =
\* true and a newSelector), the node entered next is the executor of the same action
\* type, with the repaired action as current action; for every action type and every
\* maxRetries.
C3_RepairIsRetried ==
    (HealJustLogged({"vision-redetection", "scroll-and-detect", "wait-and-detect"})
        /\ Last(healingHistory).elementFound) =>
            /\ currentAction.type = actions[currentStep + 1].type
            /\ currentAction.target = Last(healingHistory).newSelector
            /\ pc = currentAction.type

\* C4: when heal finds no repair (all-strategies-failed or error) with the counter below
\* the ceiling at invocation, the counter goes up by exactly 1, needsHealing stays true,
\* the current action is unchanged and the executor of the same action type is entered
\* again.
C4_UnrepairedIsRetried ==
    [][(/\ pc = "heal"
        /\ healingAttempts < healingConfig.maxRetries
        /\ Len(healingHistory') = Len(healingHistory) + 1
        /\ Last(healingHistory').strategy \in {"all-strategies-failed", "error"}) =>
            /\ healingAttempts' = healingAttempts + 1
            /\ needsHealing' = TRUE
            /\ currentAction' = currentAction
            /\ pc' = currentAction.type]_vars

\* C5: healing exhaustion on a step does not end the run: the node after the exhausted
\* heal is success, success moves the cursor on by one and hands over to the router, the
\* last StepResult of the exhausted step is a failure, heal, success and router never
\* end the run abnormally, the router dispatches every remaining step, and finalize runs
\* only once the cursor has passed the last planned step (or stands at a plan element
\* that is no action at all, which the router edge sends to finalize whatever happened
\* before).
C5_ExhaustionNotFatal ==
    /\ [](\A s \in 0..currentStep :
            ExhaustedLogged(s) =>
                /\ (s = currentStep => pc = "success")
                /\ ResultsOf(s) # <<>>
                /\ Last(ResultsOf(s)).success = FALSE)
    /\ [][pc = "success" => (currentStep' = currentStep + 1 /\ pc' = "router")]_vars
    /\ [][(pc \in {"heal", "success", "router"}) => (pc' # "aborted")]_vars
    /\ [][(pc = "router" /\ currentStep < totalSteps) =>
            /\ currentAction' = actions[currentStep + 1]
            /\ currentAction' # NoAction =>
                  /\ pc' \in {currentAction'.type, "success"}
                  /\ pc' = "success" =>
                        currentAction'.type \notin {"navigate", "click", "fill", "extract"}]_vars
    /\ [](pc \in {"finalize", "END"} =>
            \/ currentStep = totalSteps
            \/ actions[currentStep + 1] = NoAction)
    /\ [](pc = "END" => finalResult.final)

\* C5 witness: a run that exhausted healing on its first step has gone on to run its
\* second step and has reached the end with a result.
C5_FinishedAfterExhaustion ==
    /\ pc = "END"
    /\ finalResult.final
    /\ ExhaustedLogged(0)
    /\ totalSteps = MaxSteps
    /\ ResultsOf(1) # <<>>
\* The healing passes of step s that ran the ladder (every entry but an exhausted one).
CyclesOf(s) == SelectSeq(HealsOf(s), LAMBDA h : h.strategy # "exhausted")
ExecutorTypes == {"navigate", "click", "fill", "extract"}

\* C6: with maxRetries = R a failing step goes through R healing cycles, each followed
\* by a re-attempt of the action, before healing is exhausted: when exhaustion is
\* reported for a step, the step has R healing cycles and R + 1 failed StepResults.
C6_RetriesBeforeExhaustion ==
    \A s \in 0..currentStep :
        ExhaustedLogged(s) =>
            /\ Len(CyclesOf(s)) = healingConfig.maxRetries
            /\ Len(ResultsOf(s)) = healingConfig.maxRetries + 1

\* C7: a step that is healed m times and then succeeds contributes exactly m + 1
\* StepResults, m failed followed by one successful, and exactly m HealingAttempts.
C7_HealedStepCounts ==
    \A s \in 0..currentStep :
        LET rs == ResultsOf(s)
            m == Len(HealsOf(s))
        IN (rs # <<>> /\ Last(rs).success) =>
              /\ Len(rs) = m + 1
              /\ \A i \in 1..m : rs[i].success = FALSE

\* C7 witness: a step has succeeded after being healed twice.
C7_HealedTwiceThenSucceeded ==
    \E s \in 0..currentStep :
        /\ Len(HealsOf(s)) = 2
        /\ Len(ResultsOf(s)) = 3
        /\ Last(ResultsOf(s)).success

\* A finished step whose executor never signalled needsHealing: none of its attempts
\* failed.
NeverNeededHealing(s) ==
    /\ s < currentStep
    /\ \A i \in 1..Len(ResultsOf(s)) : ResultsOf(s)[i].success

\* C8 as stated: every planned step whose executor never signals needsHealing
\* contributes exactly one StepResult, whatever its type and with or without a target.
C8_OneResultPerCleanStep ==
    \A s \in 0..MaxSteps - 1 : NeverNeededHealing(s) => Len(ResultsOf(s)) = 1

\* C8 amended: such a step contributes exactly one StepResult if it is a navigate,
\* click, fill or extract action that carries a target, and none otherwise (the router
\* skips other types, and an executor returns at once on a missing target).
C8_OneResultPerExecutedCleanStep ==
    \A s \in 0..MaxSteps - 1 :
        NeverNeededHealing(s) =>
            Len(ResultsOf(s)) =
                (IF actions[s + 1].type \in ExecutorTypes /\ actions[s + 1].target # NoTarget
                 THEN 1 ELSE 0)

\* C8 witness: a run finished a plan that holds an executed step, a step without a
\* target and a step of a type with no executor, none of which needed healing.
C8_CleanStepsOfEveryKind ==
    /\ pc = "END"
    /\ \A s \in 0..totalSteps - 1 : NeverNeededHealing(s)
    /\ \E s \in 0..totalSteps - 1 : Len(ResultsOf(s)) = 1
    /\ \E s \in 0..totalSteps - 1 :
          Len(ResultsOf(s)) = 0
            /\ (actions[s + 1].target = NoTarget \/ actions[s + 1].type \notin ExecutorTypes)

\* C9: whenever a step fails and its healing is exhausted (heal hands over to success
\* with the counter at the ceiling after a failed attempt), the run advances past the
\* step and the healing log holds exactly one exhausted entry for it; for every action
\* type and every maxRetries.
C9_ExhaustionLoggedOnce ==
    (/\ lastNode = "heal"
     /\ healingAttempts >= healingConfig.maxRetries
     /\ ResultsOf(currentStep) # <<>>
     /\ Last(ResultsOf(currentStep)).success = FALSE) =>
        /\ pc = "success"
        /\ Len(SelectSeq(HealsOf(currentStep), LAMBDA h : h.strategy = "exhausted")) = 1

\* Every planned step succeeded on its first attempt.
AllFirstAttemptsSucceeded ==
    \A s \in 0..totalSteps - 1 : ResultsOf(s) # <<>> /\ ResultsOf(s)[1].success

\* C10: for a plan of n actions in which every step succeeds on its first attempt, the
\* TaskResult has success = true, n steps and no healing attempts.
C10_CleanRunResult ==
    (finalResult.final /\ AllFirstAttemptsSucceeded) =>
        /\ finalResult.success
        /\ Len(finalResult.steps) = totalSteps
        /\ Len(finalResult.healingAttempts) = 0

\* C10 witness: a finished run of a plan of MaxSteps actions, all first attempts
\* successful.
C10_CleanRunFinished ==
    /\ finalResult.final
    /\ totalSteps = MaxSteps
    /\ AllFirstAttemptsSucceeded

\* ------------------------------------------- finalize as a function of state
\* The finalize node reads currentStep, totalSteps, results, extractedData and
\* healingHistory and nothing else.  FinalizeSpec applies it to every such state
\* within the bounds, whether or not the graph can hand that state to it.
FinalizeInputResults ==
    {[action |-> Action("extract", "search button"), success |-> ok,
      error |-> IF ok THEN NoError ELSE "ExtractionError", duration |-> 0,
      screenshot |-> <<"png", 1>>, healingUsed |-> FALSE, step |-> 0,
      extracted |-> <<>>] :
        ok \in BOOLEAN}

FinalizeInit ==
    /\ healingConfig \in [enabled : {TRUE}, maxRetries : {MinRetries},
                           backoff : {"exponential"}, baseDelayMs : {DefaultBaseDelayMs}]
    /\ pc = "finalize"
    /\ lastNode = "router"
    /\ actions = <<>>
    /\ currentStep \in 0..MaxSteps
    /\ totalSteps \in 0..MaxSteps
    /\ currentAction = NoAction
    /\ results \in SeqsUpTo(FinalizeInputResults, MaxSteps)
    /\ lastError = NoError
    /\ healingAttempts = 0
    /\ healingHistory = <<>>
    /\ extractedData \in ExtractOutputs
    /\ needsHealing = FALSE
    /\ isComplete = FALSE
    /\ healingExhausted = FALSE
    /\ finalResult = NoResult
    /\ healCalls = <<>>
    /\ now = MaxTime
    /\ resolved = NotFollowed
    /\ NoEvaluation

FinalizeNext == Finalize

FinalizeSpec == FinalizeInit /\ [][FinalizeNext]_vars

C12_CursorBounded ==
    /\ [](currentStep <= totalSteps)
    /\ [](pc = "success" => currentStep < totalSteps)
    /\ [][currentStep' # currentStep =>
            (pc = "success" /\ lastNode' = "success" /\ currentStep' = currentStep + 1)]_vars

\* C12 witness: the success node has just moved the cursor onto the end of a plan of
\* MaxSteps actions.
C12_CursorAtEnd ==
    /\ lastNode = "success"
    /\ totalSteps = MaxSteps
    /\ currentStep = totalSteps

\* C13: no failure inside an action node leaves the node as an exception: a node that
\* ran and did not succeed has returned needsHealing = true, lastError and one more
\* failed StepResult, and the run goes on.
C13_ExecutorsNeverThrow ==
    lastNode \in ExecutorTypes =>
        /\ pc # "aborted"
        /\ (needsHealing =>
              (results # <<>> /\ ~Last(results).success /\ Last(results).error = lastError))

\* C14: when planTask throws, the run ends there: the plan node is not run again, no
\* other node runs, no browser or locator call is made and no TaskResult is produced.
C14_PlanningFailureFatal ==
    /\ [](pc = "plan" => lastNode = "START")
    /\ []((pc = "aborted" /\ lastNode = "plan") =>
            /\ finalResult = NoResult
            /\ actions = <<>> /\ results = <<>> /\ healingHistory = <<>> /\ healCalls = <<>>
            /\ currentAction = NoAction /\ ~isComplete)
    /\ [][pc # "aborted"]_vars

\* C14 witness: the run has ended in the plan node.
C14_PlanningFailed ==
    /\ pc = "aborted"
    /\ lastNode = "plan"

\* C15: with healingConfig.enabled = false no recovery is attempted for a failed step:
\* heal makes no browser or locator call and no step is executed a second time.
C15_DisabledNeverHeals ==
    ~healingConfig.enabled =>
        /\ healCalls = <<>>
        /\ \A s \in 0..MaxSteps : Len(ResultsOf(s)) <= 1

\* The planned steps whose type has no action node.
SkippedSteps ==
    {s \in 0..Len(actions) - 1 :
        actions[s + 1] # NoAction /\ actions[s + 1].type \notin ExecutorTypes}

\* C16: a planned action whose type is none of navigate, click, fill, extract goes from
\* the router straight to success: no action node and no heal runs for it, no call is
\* made, no StepResult is appended, the cursor advances by one and the run goes on.
C16_UnknownTypeSkipped ==
    /\ [](\A s \in SkippedSteps : ResultsOf(s) = <<>> /\ HealsOf(s) = <<>>)
    /\ [][(pc = "router" /\ currentStep \in SkippedSteps) =>
            (pc' = "success" /\ healCalls' = <<>> /\ results' = results
               /\ healingHistory' = healingHistory /\ currentStep' = currentStep)]_vars
    /\ [][(pc = "success" /\ currentStep \in SkippedSteps) =>
            (lastNode = "router" /\ pc' = "router" /\ currentStep' = currentStep + 1
               /\ healCalls' = <<>> /\ results' = results
               /\ healingHistory' = healingHistory)]_vars

\* C16 witness: a run has finished a plan of MaxSteps actions, one of an unknown type
\* and one of a declared type without a node, with nothing executed.
C16_SkippedPlanFinished ==
    /\ finalResult.final
    /\ totalSteps = MaxSteps
    /\ SkippedSteps = 0..totalSteps - 1
    /\ \E s \in SkippedSteps : actions[s + 1].type \in UnknownTypes
    /\ \E s \in SkippedSteps : actions[s + 1].type \in ActionTypes
    /\ finalResult.steps = <<>>

\* C17: at most one browser session is live at any time of an evaluation: a run
\* acquires its session with none live, and a session a run acquired has been
\* released once the evaluation has stopped, whether it returned or threw.
C17_OneLiveSession ==
    /\ liveSessions <= 1
    /\ evalPc = "createAgent" => liveSessions = 0
    /\ evalPc \in {"done", "thrown"} => liveSessions = 0

\* C18: a run that ends in an exception is recorded as one failed attempt and the
\* evaluation goes on; every scenario's summary has attempts = runsPerScenario =
\* successes + failures and lists each error message once.
C18_ExceptionalRunsRecorded ==
    /\ evalPc # "thrown"
    /\ evalPc \in {"createAgent", "summary"} => Len(runResults) = runIndex
    /\ \A i \in DOMAIN scenarioResults :
         LET r == scenarioResults[i]
         IN /\ r.attempts = evalOptions.runsPerScenario
            /\ r.attempts = r.successes + r.failures
            /\ \A m, n \in DOMAIN r.errors : r.errors[m] = r.errors[n] => m = n

\* C19: calculatePassAtK(results, k) is true exactly when some index i below
\* min(k, length(results)) has results[i] true; so it is false for an empty list and
\* false for k = 0.
C19_PassAtKFirstK ==
    returned.done =>
        /\ returned.value =
              (\E i \in 0..Min(call.k, Len(call.results)) - 1 : call.results[i + 1])
        /\ call.results = <<>> => ~returned.value
        /\ call.k = 0 => ~returned.value

\* C20: calculatePassAtK is monotone in k: true at k1, it is true at every k2 >= k1.
C20_PassAtKMonotone ==
    (returned.done /\ returned.value) =>
        \A k2 \in KValues : call.k <= k2 => calculatePassAtK(call.results, k2)

\* C21: for all n >= 0 and k >= 0, estimatePassAtK(n, 0, k) = 0 and
\* estimatePassAtK(n, n, k) = 1.
C21_EstimateEndpoints ==
    returned.done =>
        /\ call.c = 0 => RatEq(returned.value, Rat(0, 1))
        /\ call.c = call.n => RatEq(returned.value, Rat(1, 1))

\* C21 as the code has it: estimatePassAtK(n, 0, k) = 0 for all n >= 0 and k >= 0, and
\* estimatePassAtK(n, n, k) = 1 for all n >= 1 and k >= 0.
C21_EstimateEndpointsWithSamples ==
    returned.done =>
        /\ call.c = 0 => RatEq(returned.value, Rat(0, 1))
        /\ (call.c = call.n /\ call.n >= 1) => RatEq(returned.value, Rat(1, 1))

\* C21 witness: the estimator has answered 1 for n = c = MaxSamples with fewer samples
\* than k.
C21_AllCorrectShortOfSamples ==
    /\ returned.done
    /\ call.n = MaxSamples /\ call.c = call.n /\ call.k > call.n
    /\ RatEq(returned.value, Rat(1, 1))

\* C22: for fixed n and k, estimatePassAtK(n, c, k) does not decrease as c grows from 0
\* to n, and its value lies between 0 and 1.
C22_EstimateMonotoneInC ==
    returned.done =>
        /\ RatLeq(Rat(0, 1), returned.value)
        /\ RatLeq(returned.value, Rat(1, 1))
        /\ \A c2 \in call.c..call.n :
             RatLeq(returned.value, estimatePassAtK(call.n, c2, call.k))

\* C22 witness: an estimate strictly between 0 and 1 that the next c strictly raises,
\* computed by the running product.
C22_EstimateStrictlyRising ==
    /\ returned.done
    /\ 0 < call.c /\ call.c + 1 < call.n /\ 1 < call.k /\ call.k <= call.n
    /\ ~RatLeq(returned.value, Rat(0, 1))
    /\ ~RatLeq(estimatePassAtK(call.n, call.c + 1, call.k), returned.value)

\* The binomial coefficient C(n, k), 0 for k > n.
RECURSIVE Choose(_, _)
Choose(n, k) ==
    IF k = 0 THEN 1
    ELSE IF n = 0 THEN 0
    ELSE Choose(n - 1, k - 1) + Choose(n - 1, k)

\* C23: for all 0 <= c <= n and 0 <= k <= n, estimatePassAtK(n, c, k) is exactly
\* 1 - C(n-c, k) / C(n, k); for n < k it is 1 if c > 0 and 0 otherwise.
C23_EstimateClosedForm ==
    returned.done =>
        IF call.n < call.k
        THEN RatEq(returned.value, IF call.c > 0 THEN Rat(1, 1) ELSE Rat(0, 1))
        ELSE RatEq(returned.value,
                   RatOneMinus(Rat(Choose(call.n - call.c, call.k), Choose(call.n, call.k))))

\* C23 as the code has it: the closed form holds for 0 <= c <= n and 1 <= k <= n, and
\* for k = 0 with c < n; for k = 0 and c = n >= 1 the estimator returns 1, where the
\* closed form is 0; for n < k it is 1 if c > 0 and 0 otherwise.
C23_EstimateClosedFormFromOneDraw ==
    returned.done =>
        IF call.n < call.k
        THEN RatEq(returned.value, IF call.c > 0 THEN Rat(1, 1) ELSE Rat(0, 1))
        ELSE IF call.k = 0 /\ call.c = call.n /\ call.n >= 1
        THEN RatEq(returned.value, Rat(1, 1))
        ELSE RatEq(returned.value,
                   RatOneMinus(Rat(Choose(call.n - call.c, call.k), Choose(call.n, call.k))))

\* C23 witness: estimatePassAtK(5, 1, 1) = 1/5 has been computed.
C23_OneInFive ==
    /\ returned.done
    /\ call.n = MaxSamples /\ call.c = 1 /\ call.k = 1
    /\ returned.value[1] * MaxSamples = returned.value[2]

Resolved == getNestedField(call.result.data, call.expected.field)
Unresolved ==
    \/ call.expected.field = NoField
    \/ call.result.data.kind = "undefined"
    \/ Resolved.kind = "undefined"

\* C25: for contains, equals and matches, gradeResult is false whenever the expected
\* field does not resolve to a value in the extracted data, also when the outcome names
\* no field or the data is absent.
C25_UnresolvedPathFails ==
    (returned.done /\ call.expected.type \in {"contains", "equals", "matches"} /\ Unresolved)
        => ~returned.value

\* C26: on a successful result, equals passes a resolved string exactly when it equals
\* the expected value ignoring case, and a resolved sequence exactly when one of its
\* elements equals the expected value; contains does the same for substrings.
C26_EqualsIgnoresCase ==
    (/\ returned.done
     /\ ~call.result.isNull /\ call.result.success
     /\ call.expected.field # NoField /\ call.expected.value # NoValue
     /\ ~Unresolved) =>
        LET expectedValue == ToLowerCase(call.expected.value)
            strings == IF Resolved.kind = "string" THEN {Resolved.chars}
                       ELSE {Resolved.items[i].chars : i \in 1..Len(Resolved.items)}
        IN /\ (call.expected.type = "equals" /\ Resolved.kind = "string") =>
                 (returned.value = (ToLowerCase(Resolved.chars) = expectedValue))
           /\ (call.expected.type = "equals" /\ Resolved.kind = "array") =>
                 (returned.value = (\E str \in strings : str = call.expected.value))
           /\ (call.expected.type = "contains" /\ Resolved.kind \in {"string", "array"}) =>
                 (returned.value =
                    (\E str \in strings : Includes(ToLowerCase(str), expectedValue)))
\* The sum of the durations of rs from its i-th entry on.
RECURSIVE DurationFrom(_, _)
DurationFrom(rs, i) == IF i > Len(rs) THEN 0 ELSE rs[i].duration + DurationFrom(rs, i + 1)

\* The screenshots of the entries of rs that have one, from the i-th entry on.
RECURSIVE ScreenshotsFrom(_, _)
ScreenshotsFrom(rs, i) ==
    IF i > Len(rs) THEN <<>>
    ELSE (IF rs[i].screenshot = NoScreenshot THEN <<>> ELSE <<rs[i].screenshot>>)
            \o ScreenshotsFrom(rs, i + 1)

\* C27: the StepResult list only grows by appending: every transition leaves the
\* entries it had unchanged and in place; and the TaskResult of finalize has steps
\* equal to the whole list, duration equal to the sum of the durations of the steps,
\* healingAttempts equal to the whole healing log, and screenshots equal to the
\* screenshots of the steps that have one, in the order of the steps.
C27_ResultsAppendOnly ==
    /\ [][/\ Len(results') >= Len(results)
          /\ SubSeq(results', 1, Len(results)) = results]_vars
    /\ [](finalResult.final =>
            /\ finalResult.steps = results
            /\ finalResult.duration = DurationFrom(results, 1)
            /\ finalResult.healingAttempts = healingHistory
            /\ finalResult.screenshots = ScreenshotsFrom(results, 1))

\* C27 witness: finalize has run on steps of different durations, one of them recorded
\* without a screenshot, after healing.
C27_FinalizedMixedSteps ==
    /\ finalResult.final
    /\ Len(finalResult.steps) >= 2
    /\ finalResult.steps[1].duration = 1
    /\ finalResult.duration = MaxTime
    /\ finalResult.screenshots # <<>>
    /\ Len(finalResult.screenshots) < Len(finalResult.steps)
    /\ finalResult.healingAttempts # <<>>

\* C28: in a run that no exception ends, plan is the first node to run and runs once,
\* finalize runs once and is the last node to run: no transition follows it, the run
\* stops nowhere but after finalize, and finalResult is null until finalize has run.
C28_PlanFirstFinalizeLast ==
    /\ [](lastNode = "START" => pc = "plan")
    /\ [][lastNode' = "plan" <=> lastNode = "START"]_vars
    /\ [][lastNode # "finalize"]_vars
    /\ [](pc = "END" <=> lastNode = "finalize")
    /\ []((~ENABLED Next) => pc \in {"END", "aborted"})
    /\ [](finalResult # NoResult <=> lastNode = "finalize")

\* C28 witness: a run that executed steps has ended after finalize.
C28_RunEnded ==
    /\ pc = "END"
    /\ lastNode = "finalize"
    /\ finalResult.final
    /\ results # <<>>

\* C29: whenever the router dispatches a step, the current action becomes the planned
\* action at the cursor and needsHealing becomes false, so that an action node entered
\* from the router never runs the derived action of an earlier step; and whenever an
\* action node is entered, from the router or from heal, the current action has the type
\* of the planned action at the cursor.
C29_RouterDispatchesPlanned ==
    /\ [][(pc = "router" /\ currentStep < totalSteps) =>
             /\ currentAction' = actions[currentStep + 1]
             /\ ~needsHealing']_vars
    /\ []((lastNode = "router" /\ pc \in ExecutorTypes) =>
             /\ currentAction = actions[currentStep + 1]
             /\ ~needsHealing)
    /\ [](pc \in ExecutorTypes =>
             /\ currentStep < Len(actions)
             /\ currentAction # NoAction
             /\ currentAction.type = actions[currentStep + 1].type)

\* C29 witness: the router has dispatched a step to its action node after an earlier step
\* ran a derived action.
C29_DispatchedAfterDerivedAction ==
    /\ lastNode = "router"
    /\ pc \in ExecutorTypes
    /\ \E i \in 1..Len(healingHistory) :
          /\ healingHistory[i].elementFound
          /\ healingHistory[i].step < currentStep
    /\ \E i \in 1..Len(results) :
          /\ results[i].step < currentStep
          /\ results[i].action # actions[results[i].step + 1]
          /\ results[i].action.type = actions[currentStep + 1].type

\* C30: the success transition adds exactly 1 to the cursor, sets the healing counter of
\* the step to 0, clears needsHealing and changes nothing else (results, healing log,
\* extracted data, planned actions and the rest of the state stay as they were); the
\* router is the node that follows it; hence the router dispatches every step with a
\* healing counter of 0.
C30_SuccessFrame ==
    /\ [][pc = "success" =>
             /\ currentStep' = currentStep + 1
             /\ healingAttempts' = 0
             /\ ~needsHealing'
             /\ pc' = "router"
             /\ UNCHANGED <<results, healingHistory, extractedData, actions, totalSteps,
                            currentAction, lastError, isComplete, healingExhausted,
                            finalResult, healingConfig>>]_vars
    /\ []((lastNode = "router" /\ pc \in ExecutorTypes) => healingAttempts = 0)

\* C30 witness: the router has dispatched a step after a step that ended with a healing
\* counter above 0.
C30_StepAfterHealedStep ==
    /\ lastNode = "router"
    /\ pc \in ExecutorTypes
    /\ currentStep > 0
    /\ healingAttempts = 0
    /\ \E i \in 1..Len(healingHistory) :
          /\ healingHistory[i].step = currentStep - 1
          /\ healingHistory[i].attemptNumber > 0

\* The rungs whose locator call is among the calls cs, and those of them whose answer
\* passes the acceptance test.
RungsTried(cs) == {r \in 1..3 : RungEnd[r] <= Len(cs)}
RungsAccepting(cs) ==
    {r \in RungsTried(cs) :
        /\ cs[RungEnd[r]].answer # NoElement
        /\ cs[RungEnd[r]].answer.confidence > ConfidenceThreshold}

\* C31: a heal invocation that is not exhausted makes the calls of the ladder in the
\* fixed order, from the backoff and vision-redetection on, whatever earlier
\* invocations did; it stops at the first rung whose candidate is accepted, so a later
\* rung is tried only after every earlier one found nothing; and it appends exactly one
\* HealingAttempt, whose strategy is that rung, all-strategies-failed when the three
\* rungs found nothing, and error when a call threw.
C31_LadderInOrder ==
    [][(pc = "heal" /\ healingAttempts < healingConfig.maxRetries) =>
         LET cs == healCalls'
             h == Last(healingHistory')
             tried == RungsTried(cs)
             accepting == RungsAccepting(cs)
         IN /\ healingHistory' = Append(healingHistory, h)
            /\ cs # <<>>
            /\ \A i \in 1..Len(cs) : cs[i].name = LadderCalls[i]
            /\ \A r \in accepting : Len(cs) = RungEnd[r]
            /\ \A r \in tried : \A q \in 1..(r - 1) : q \in tried /\ q \notin accepting
            /\ \A r \in accepting :
                  /\ h.strategy = RungStrategy[r]
                  /\ h.elementFound
                  /\ h.newSelector = cs[RungEnd[r]].answer.selector
            /\ (accepting = {} /\ Len(cs) = Len(LadderCalls)) =>
                  (h.strategy = "all-strategies-failed" /\ ~h.elementFound)
            /\ (accepting = {} /\ Len(cs) < Len(LadderCalls)) =>
                  (h.strategy = "error" /\ ~h.elementFound /\ cs[Len(cs)].name # "locator")]_vars

\* C31 witness: the second invocation of a step ran the ladder from the start and
\* stopped at scroll-and-detect, after the first had stopped at wait-and-detect.
C31_SecondPassFromTheStart ==
    /\ lastNode = "heal"
    /\ Len(healCalls) = RungEnd[2]
    /\ Len(healingHistory) >= 2
    /\ Last(healingHistory).strategy = "scroll-and-detect"
    /\ healingHistory[Len(healingHistory) - 1].strategy = "wait-and-detect"
    /\ healingHistory[Len(healingHistory) - 1].step = currentStep

\* The delay of the policy after `attempt` healing attempts.
PolicyDelay(attempt) ==
    IF healingConfig.backoff = "linear"
    THEN healingConfig.baseDelayMs * (attempt + 1)
    ELSE healingConfig.baseDelayMs * (2 ^ attempt)

\* C32: a heal invocation that is not exhausted first waits baseDelayMs * (attempt + 1)
\* under the linear policy and baseDelayMs * 2^attempt under the exponential one, attempt
\* being the healing counter of the step; the first invocation for a step waits exactly
\* baseDelayMs; and within a step no invocation waits less than an earlier one.
C32_BackoffDelay ==
    [][(pc = "heal" /\ healingAttempts < healingConfig.maxRetries) =>
         /\ healCalls'[1].name = "backoff"
         /\ healCalls'[1].ms = PolicyDelay(healingAttempts)
         /\ HealsOf(currentStep) = <<>> => healCalls'[1].ms = healingConfig.baseDelayMs
         /\ \A i \in 1..Len(HealsOf(currentStep)) :
               PolicyDelay(HealsOf(currentStep)[i].attemptNumber - 1) <= healCalls'[1].ms]_vars

\* The candidates of the locator that must be rejected: those whose confidence does
\* not exceed the threshold.
Doubtful == {d \in Detections : d # NoElement /\ d.confidence <= ConfidenceThreshold}

\* C33: at every site that accepts a candidate of the locator (click, fill and the
\* three rungs of heal) the candidate is accepted only if its confidence is strictly
\* above 0.6: click and fill act on the candidate's selector only then, heal derives an
\* action only from such a candidate, and the selector of a candidate with confidence
\* exactly 0.6 is never the one acted on, never the target of the current action and
\* never the target of an executed action; a null candidate yields no selector.
C33_AcceptAboveThreshold ==
    /\ (lastNode \in {"click", "fill"} /\ resolved.asked) =>
          /\ resolved.selector \in Selectors =>
                /\ resolved.answer # NoElement
                /\ resolved.answer.confidence > ConfidenceThreshold
                /\ resolved.selector = resolved.answer.selector
          /\ (resolved.answer = NoElement \/ resolved.answer.confidence <= ConfidenceThreshold)
                => resolved.selector \notin Selectors
    /\ (lastNode = "heal" /\ healCalls # <<>>) =>
          /\ \A r \in RungsTried(healCalls) :
                LET answer == healCalls[RungEnd[r]].answer
                IN (answer = NoElement \/ answer.confidence <= ConfidenceThreshold) =>
                      \/ Len(healCalls) > RungEnd[r]
                      \/ ~Last(healingHistory).elementFound
          /\ Last(healingHistory).elementFound =>
                LET answer == healCalls[Len(healCalls)].answer
                IN /\ answer # NoElement
                   /\ answer.confidence > ConfidenceThreshold
                   /\ currentAction.target = answer.selector
                   /\ Last(healingHistory).newSelector = answer.selector
    /\ \A d \in Doubtful :
          /\ resolved.selector # d.selector
          /\ currentAction.target # d.selector
          /\ \A i \in 1..Len(results) : results[i].action.target # d.selector
          /\ \A i \in 1..Len(healingHistory) : healingHistory[i].newSelector # d.selector

\* C33 witness: after a step that heal repaired, click was given a candidate with
\* confidence exactly 0.6, rejected it and went on with a selector pattern.
C33_ThresholdCandidateRejected ==
    /\ lastNode = "click"
    /\ resolved.asked
    /\ resolved.answer \in Doubtful
    /\ resolved.selector = ClickPattern(currentAction.target)
    /\ results # <<>>
    /\ Last(results).success
    /\ \E i \in 1..Len(healingHistory) : healingHistory[i].elementFound

\* C34: once plan has run no transition changes the planned action list; and a repair
\* by heal leaves the planned list alone and makes the current action a derived
\* action with the type and the value of the current action, the selector heal
\* logged as its target, and no other difference.
C34_PlanImmutable ==
    /\ [][lastNode # "START" => actions' = actions]_vars
    /\ [][pc = "heal" =>
             /\ currentAction'.type = currentAction.type
             /\ currentAction'.value = currentAction.value
             /\ DOMAIN currentAction' = DOMAIN currentAction
             /\ Len(healingHistory') > Len(healingHistory) /\ Last(healingHistory').elementFound
                   => currentAction'.target = Last(healingHistory').newSelector
             /\ ~(Len(healingHistory') > Len(healingHistory) /\ Last(healingHistory').elementFound)
                   => currentAction' = currentAction]_vars

\* C34 witness: heal has repaired a fill; the current action is the derived one and
\* carries the text of the planned action, which is still in the plan.
C34_DerivedFill ==
    /\ lastNode = "heal"
    /\ currentAction.type = "fill"
    /\ currentAction # actions[currentStep + 1]
    /\ currentAction.value \in FillTexts
    /\ currentAction.value = actions[currentStep + 1].value
    /\ currentAction.target \in Selectors

\* The successful steps that returned a value for key k, by their place in results.
StepsExtracting(k) ==
    {i \in 1..Len(results) : results[i].success /\ k \in DOMAIN results[i].extracted}
ExtractedKeys == UNION {DOMAIN data : data \in ExtractOutputs}

\* C35: the extracted data is the key-wise merge of what the successful extract steps
\* returned, in execution order: it has a key exactly when some step returned it, with
\* the value of the latest such step; a merge keeps every key present before it; and
\* only a successful extract changes the extracted data.
C35_DataMergedKeyWise ==
    /\ [](\A k \in ExtractedKeys :
             /\ k \in DOMAIN extractedData <=> StepsExtracting(k) # {}
             /\ StepsExtracting(k) # {} =>
                   extractedData[k] =
                      results[CHOOSE i \in StepsExtracting(k) :
                                 \A j \in StepsExtracting(k) : j <= i].extracted[k])
    /\ [][DOMAIN extractedData \subseteq DOMAIN extractedData']_vars
    /\ [][extractedData' # extractedData =>
             /\ pc = "extract"
             /\ results' = Append(results, Last(results'))
             /\ Last(results').success
             /\ Last(results').action.type = "extract"]_vars

\* C35 witness: two extract steps returned the same key and the data holds the value of
\* the later one.
C35_LaterValueWins ==
    /\ Len(results) = 2
    /\ results[1].success /\ results[2].success
    /\ results[1].extracted = [k \in {"titles"} |-> "v1"]
    /\ results[2].extracted = [k \in {"titles"} |-> "v2"]
    /\ extractedData = [k \in {"titles"} |-> "v2"]

\* C36: the healing log only grows by appending, one HealingAttempt for every heal
\* transition, the exhausted ones included, and nothing for any other transition; so
\* its length is never below the number of heal transitions taken.
C36_HealingLogGrows ==
    /\ [][/\ Len(healingHistory') >= Len(healingHistory)
          /\ SubSeq(healingHistory', 1, Len(healingHistory)) = healingHistory]_vars
    /\ [][pc = "heal" => Len(healingHistory') = Len(healingHistory) + 1]_vars
    /\ [][pc # "heal" => healingHistory' = healingHistory]_vars

\* C36 witness: heal has logged the exhaustion of a step after logging a pass of the
\* ladder for it.
C36_ExhaustionAppended ==
    /\ lastNode = "heal"
    /\ Len(healingHistory) >= 2
    /\ Last(healingHistory).strategy = "exhausted"
    /\ healingHistory[Len(healingHistory) - 1].step = currentStep
    /\ healingHistory[Len(healingHistory) - 1].strategy # "exhausted"

C38_RunTerminates ==
    /\ <>(pc \in {"END", "aborted"})
    /\ [](\A s \in 0..MaxSteps :
             /\ Len(ResultsOf(s)) <= healingConfig.maxRetries + 1
             /\ Len(HealsOf(s)) <= healingConfig.maxRetries + 1)

\* C38 witness: a run has ended after finalize with a step that was attempted more than
\* once and ran out of retries.
C38_EndedAfterRetries ==
    /\ pc = "END"
    /\ \E s \in 0..MaxSteps :
          /\ Len(ResultsOf(s)) >= 2
          /\ \E i \in 1..Len(HealsOf(s)) : HealsOf(s)[i].strategy = "exhausted"

\* The planned steps of a navigate or extract action.
SingleShotSteps ==
    {s \in 0..Len(actions) - 1 :
        actions[s + 1] # NoAction /\ actions[s + 1].type \in {"navigate", "extract"}}

RetriedSteps ==
    {s \in 0..Len(actions) - 1 :
        actions[s + 1] # NoAction /\ actions[s + 1].type \in {"click", "fill"}}

\* The passes of the ladder logged for step s: heal's entries but the exhausted ones.
LadderPasses(s) == SelectSeq(HealsOf(s), LAMBDA h : h.strategy # "exhausted")

====
